---------------------------- MODULE Spec2Model ----------------------------
(***************************************************************************)
(* Model of the todo command-line program (src/src/lib.rs, src/src/main.rs) *)
(*                                                                         *)
(* One process invocation is: Command::build(argv), then run(command):     *)
(* open the backing file, TaskList::load, one of add/list/complete/delete, *)
(* TaskList::save for the mutating ones, then process::exit.               *)
(*                                                                         *)
(* A Rust String is modelled as a sequence of one-character strings, so    *)
(* that split, lines, parse and to_lowercase are computed character by     *)
(* character as the library computes them.                                 *)
(***************************************************************************)
EXTENDS Integers, Sequences, FiniteSets

VARIABLES
    file,        \* bytes of /tmp/tasks.txt (<<>> when absent or empty)
    exists,      \* whether /tmp/tasks.txt exists
    argv,        \* env::args() of the last invocation
    before,      \* bytes of the file when the last invocation started
    tasks,       \* TaskList.tasks when the last invocation ended
    stdout,      \* what the last invocation printed with println!
    stderr,      \* what the last invocation printed with eprintln!
    outcome,     \* "none" | "ok" | "command_error" | "app_error" | "panic"
    status,      \* exit status of the last invocation
    command,     \* result of Command::build in the parsing specification
    content,     \* a line handed to Task::from_string in the codec specification
    task,        \* a Task handed to Task::to_string in the codec specification
    decoded,     \* result of Task::from_string in the codec specification
    pc           \* position of the parsing / codec specification

vars == <<file, exists, argv, before, tasks, stdout, stderr, outcome, status,
          command, content, task, decoded, pc>>

(***************************************************************************)
(* Bounds of the model.                                                    *)
(***************************************************************************)
MaxTasks == 3  \* add is explored while the loaded list is shorter than this
MaxLen == 4    \* longest line / name explored by the codec specification
MaxArgs == 3   \* most arguments after the program name in the parsing specification

(***************************************************************************)
(* Characters and strings.                                                 *)
(***************************************************************************)
SEPARATOR == "|"
LF == "\n"
CR == "\r"
USIZE_BITS == 64

Digits == <<"0", "1", "2", "3", "4", "5", "6", "7", "8", "9">>

IsDigit(c) == \E d \in 1..10 : Digits[d] = c

DigitValue(c) == (CHOOSE d \in 1..10 : Digits[d] = c) - 1

\* char::to_lowercase on the letters that occur in the explored arguments
LowerChar(c) ==
    CASE c = "A" -> "a"
      [] c = "C" -> "c"
      [] c = "D" -> "d"
      [] c = "E" -> "e"
      [] c = "I" -> "i"
      [] c = "L" -> "l"
      [] c = "M" -> "m"
      [] c = "O" -> "o"
      [] c = "P" -> "p"
      [] c = "S" -> "s"
      [] c = "T" -> "t"
      [] OTHER -> c

\* str::to_lowercase
ToLowercase(s) == [i \in 1..Len(s) |-> LowerChar(s[i])]

\* str::split(sep).collect(): n separators give n+1 parts, empty parts kept
RECURSIVE SplitFrom(_, _, _, _)
SplitFrom(s, sep, i, cur) ==
    IF i > Len(s) THEN << cur >>
    ELSE IF s[i] = sep THEN << cur >> \o SplitFrom(s, sep, i + 1, << >>)
    ELSE SplitFrom(s, sep, i + 1, Append(cur, s[i]))

Split(s, sep) == SplitFrom(s, sep, 1, << >>)

\* the value of a non-empty string of decimal digits
RECURSIVE DecimalValue(_)
DecimalValue(ds) ==
    IF ds = << >> THEN 0
    ELSE 10 * DecimalValue(SubSeq(ds, 1, Len(ds) - 1)) + DigitValue(ds[Len(ds)])

\* str::parse::<usize>: an optional '+', then one or more decimal digits.
\* The explored strings are shorter than the 20 digits that overflow usize.
ParseUsize(s) ==
    LET ds == IF s # << >> /\ s[1] = "+" THEN Tail(s) ELSE s
    IN  IF ds = << >> \/ \E i \in 1..Len(ds) : ~IsDigit(ds[i])
        THEN [ok |-> FALSE, value |-> 0]
        ELSE [ok |-> TRUE, value |-> DecimalValue(ds)]

\* Display of a usize
RECURSIVE DecimalString(_)
DecimalString(n) ==
    IF n < 10 THEN << Digits[n + 1] >>
    ELSE Append(DecimalString(n \div 10), Digits[(n % 10) + 1])

\* whether the bitwise complement of the k-bit value n equals the k-bit value
\* m: the operator ! on an unsigned integer flips every bit
RECURSIVE BitNotEquals(_, _, _)
BitNotEquals(n, m, k) ==
    IF k = 0 THEN TRUE
    ELSE /\ 1 - (n % 2) = m % 2
         /\ BitNotEquals(n \div 2, m \div 2, k - 1)

(***************************************************************************)
(* Task and its codec.                                                     *)
(***************************************************************************)
NoTask == [name |-> << >>, completed |-> FALSE]

Ok(t) == [kind |-> "ok", msg |-> "", task |-> t]

Err(m) == [kind |-> "err", msg |-> m, task |-> NoTask]

Panic(m) == [kind |-> "panic", msg |-> m, task |-> NoTask]

\* Task::new
NewTask(name) == [name |-> name, completed |-> FALSE]

\* a complete that flips the flag
CompleteToggle(t) == [t EXCEPT !.completed = ~t.completed]

\* Task::complete
Complete(t) == [t EXCEPT !.completed = TRUE]

\* the condition `!parts.len() == 2`: ! binds tighter than ==, and on a usize
\* it is the bitwise complement
NotLenIsTwo(parts) == BitNotEquals(Len(parts), 2, USIZE_BITS)

\* Task::from_string
FromString(s) ==
    LET parts == Split(s, SEPARATOR)
    IN  IF NotLenIsTwo(parts) THEN Err("Failed to parse Task")
        ELSE IF Len(parts) < 2
             THEN Panic("index out of bounds")
        ELSE LET n == ParseUsize(parts[1])
             IN  IF ~n.ok THEN Panic("Not a number")
                 ELSE Ok([name |-> parts[2], completed |-> (n.value = 1)])

\* an encoding that writes the name before the flag
ToStringNameFirst(t) ==
    t.name \o << SEPARATOR >> \o << (IF t.completed THEN "1" ELSE "0") >>

\* Task::to_string
ToString(t) ==
    << (IF t.completed THEN "1" ELSE "0") >> \o << SEPARATOR >> \o t.name

(***************************************************************************)
(* TaskList: load and save.                                                *)
(***************************************************************************)
\* BufRead::lines: the bytes up to each LF, without the LF and without one CR
\* before it; bytes after the last LF are a last line, returned as they are
StripCR(l) ==
    IF l # << >> /\ l[Len(l)] = CR THEN SubSeq(l, 1, Len(l) - 1) ELSE l

Lines(bytes) ==
    LET chunks == Split(bytes, LF)
        n == Len(chunks)
        terminated == [i \in 1..(n - 1) |-> StripCR(chunks[i])]
    IN  IF chunks[n] = << >> THEN terminated ELSE Append(terminated, chunks[n])

\* the loop of TaskList::load: the first line that fails ends the load
RECURSIVE LoadFrom(_, _, _)
LoadFrom(lines, i, acc) ==
    IF i > Len(lines) THEN [kind |-> "ok", msg |-> "", tasks |-> acc]
    ELSE LET r == FromString(lines[i])
         IN  IF r.kind # "ok"
             THEN [kind |-> r.kind, msg |-> r.msg, tasks |-> << >>]
             ELSE LoadFrom(lines, i + 1, Append(acc, r.task))

\* TaskList::load
Load(db) == LoadFrom(Lines(db), 1, << >>)

\* File::set_len to a length not beyond the end
SetLen(db, n) == SubSeq(db, 1, n)

\* writing bytes at offset pos of a file
WriteAt(db, pos, bytes) ==
    SubSeq(db, 1, pos) \o bytes \o SubSeq(db, pos + Len(bytes) + 1, Len(db))

\* the writeln! loop of TaskList::save
RECURSIVE EncodeAll(_)
EncodeAll(ts) ==
    IF ts = << >> THEN << >>
    ELSE ToString(Head(ts)) \o << LF >> \o EncodeAll(Tail(ts))

\* a save that does not truncate before it rewrites
SaveNoSetLen(db, ts) == WriteAt(db, 0, EncodeAll(ts))

\* TaskList::save: the bytes of the file afterwards
Save(db, ts) == WriteAt(SetLen(db, 0), 0, EncodeAll(ts))

(***************************************************************************)
(* Command::build.                                                         *)
(***************************************************************************)
add == << "a", "d", "d" >>
list == << "l", "i", "s", "t" >>
complete == << "c", "o", "m", "p", "l", "e", "t", "e" >>
delete == << "d", "e", "l", "e", "t", "e" >>

CommandErr(m) == [kind |-> "err", msg |-> m, cmd |-> "", text |-> << >>, number |-> 0]

CommandAdd(text) == [kind |-> "ok", msg |-> "", cmd |-> "Add", text |-> text, number |-> 0]

CommandList == [kind |-> "ok", msg |-> "", cmd |-> "List", text |-> << >>, number |-> 0]

CommandComplete(n) == [kind |-> "ok", msg |-> "", cmd |-> "Complete", text |-> << >>, number |-> n]

CommandDelete(n) == [kind |-> "ok", msg |-> "", cmd |-> "Delete", text |-> << >>, number |-> n]

\* a build that compares the command word as typed
BuildCaseSensitive(args) ==
    IF Len(args) < 2 THEN CommandErr("Missing command")
    ELSE LET word == args[2]
         IN  IF word = add
             THEN IF Len(args) < 3 THEN CommandErr("Missing task")
                  ELSE CommandAdd(args[3])
             ELSE IF word = list THEN CommandList
             ELSE IF word = complete \/ word = delete
             THEN IF Len(args) < 3 THEN CommandErr("Missing task number")
                  ELSE LET number == ParseUsize(args[3])
                       IN  IF ~number.ok THEN CommandErr("Non-integer number")
                           ELSE IF word = complete
                                THEN CommandComplete(number.value)
                                ELSE CommandDelete(number.value)
             ELSE CommandErr("Unsupported command")

\* Command::build; args[1] is the program name
Build(args) ==
    IF Len(args) < 2 THEN CommandErr("Missing command")
    ELSE LET word == ToLowercase(args[2])
         IN  IF word = add
             THEN IF Len(args) < 3 THEN CommandErr("Missing task")
                  ELSE CommandAdd(args[3])
             ELSE IF word = list THEN CommandList
             ELSE IF word = complete \/ word = delete
             THEN IF Len(args) < 3 THEN CommandErr("Missing task number")
                  ELSE LET number == ParseUsize(args[3])
                       IN  IF ~number.ok THEN CommandErr("Non-integer number")
                           ELSE IF word = complete
                                THEN CommandComplete(number.value)
                                ELSE CommandDelete(number.value)
             ELSE CommandErr("Unsupported command")

(***************************************************************************)
(* run and the four operations.  Each returns what the invocation leaves:  *)
(* how it ended, the error, the in-memory list, the bytes of the file and  *)
(* the printed lines.                                                      *)
(***************************************************************************)
Result(o, m, ts, db, out) ==
    [outcome |-> o, msg |-> m, tasks |-> ts, file |-> db, stdout |-> out]

\* Vec::remove of the element at 0-based index n, n < Len(ts)
Remove(ts, n) == SubSeq(ts, 1, n) \o SubSeq(ts, n + 2, Len(ts))

\* Vec::swap_remove: the last element takes the place of the removed one
SwapRemove(ts, n) ==
    IF n + 1 = Len(ts) THEN SubSeq(ts, 1, n)
    ELSE [i \in 1..(Len(ts) - 1) |-> IF i = n + 1 THEN ts[Len(ts)] ELSE ts[i]]

\* an add_task that inserts the new task at the front
AddTaskFront(ts, db, text) ==
    LET pushed == << NewTask(text) >> \o ts
    IN  Result("ok", "", pushed, Save(db, pushed), << << "Adding task: ", text >> >>)

\* add_task
AddTask(ts, db, text) ==
    LET pushed == Append(ts, NewTask(text))
    IN  Result("ok", "", pushed, Save(db, pushed), << << "Adding task: ", text >> >>)

HEADER == << "#", SEPARATOR, "C", SEPARATOR, "T", "a", "s", "k" >>

\* the rows list_tasks prints after the header
Rows(ts) ==
    [i \in 1..Len(ts) |-> DecimalString(i - 1) \o << SEPARATOR >> \o ToString(ts[i])]

\* list_tasks
ListTasks(ts, db) == Result("ok", "", ts, db, << HEADER >> \o Rows(ts))

\* complete_task
CompleteTask(ts, db, number) ==
    LET out == << << "Completing task: ", DecimalString(number) >> >>
    IN  IF number >= Len(ts) THEN Result("app_error", "Missing task", ts, db, out)
        ELSE LET done == [ts EXCEPT ![number + 1] = Complete(ts[number + 1])]
             IN  Result("ok", "", done, Save(db, done), out)

\* a delete_task that removes with swap_remove
DeleteTaskSwap(ts, db, number) ==
    LET out == << << "Deleting task: ", DecimalString(number) >> >>
    IN  IF Len(ts) < number THEN Result("app_error", "Missing task", ts, db, out)
        ELSE IF number >= Len(ts)
             THEN Result("panic", "removal index out of bounds", ts, db, out)
        ELSE LET rest == SwapRemove(ts, number)
             IN  Result("ok", "", rest, Save(db, rest), out)

\* delete_task: the guard is len < number, so number = len reaches Vec::remove,
\* which panics for an index that is not below the length
DeleteTask(ts, db, number) ==
    LET out == << << "Deleting task: ", DecimalString(number) >> >>
    IN  IF Len(ts) < number THEN Result("app_error", "Missing task", ts, db, out)
        ELSE IF number >= Len(ts)
             THEN Result("panic", "removal index out of bounds", ts, db, out)
        ELSE LET rest == Remove(ts, number)
             IN  Result("ok", "", rest, Save(db, rest), out)

\* the match of run
Dispatch(cmd, ts, db) ==
    CASE cmd.cmd = "Add" -> AddTask(ts, db, cmd.text)
      [] cmd.cmd = "List" -> ListTasks(ts, db)
      [] cmd.cmd = "Complete" -> CompleteTask(ts, db, cmd.number)
      [] cmd.cmd = "Delete" -> DeleteTask(ts, db, cmd.number)

\* a run that opens the file with truncate(true)
RunTruncate(cmd, db) ==
    LET opened == << >>
        l == Load(opened)
    IN  IF l.kind = "err" THEN Result("app_error", l.msg, << >>, opened, << >>)
        ELSE IF l.kind = "panic" THEN Result("panic", l.msg, << >>, opened, << >>)
        ELSE Dispatch(cmd, l.tasks, opened)

\* run: open (creating the file when absent), load, dispatch
Run(cmd, db) ==
    LET l == Load(db)
    IN  IF l.kind = "err" THEN Result("app_error", l.msg, << >>, db, << >>)
        ELSE IF l.kind = "panic" THEN Result("panic", l.msg, << >>, db, << >>)
        ELSE Dispatch(cmd, l.tasks, db)

EXIT_SUCCESS == 0
EXIT_FAILURE == 1
EXIT_PANIC == 101

\* main: one whole invocation of the program with arguments args
Main(args) ==
    \E c \in { Build(args) } :
        /\ argv' = args
        /\ before' = file
        /\ IF c.kind = "err"
           THEN /\ outcome' = "command_error"
                /\ stderr' = << "Command error: ", c.msg >>
                /\ status' = EXIT_FAILURE
                /\ tasks' = << >>
                /\ stdout' = << >>
                /\ UNCHANGED << file, exists >>
           ELSE \E r \in { Run(c, file) } :
                    /\ outcome' = r.outcome
                    /\ tasks' = r.tasks
                    /\ stdout' = r.stdout
                    /\ file' = r.file
                    /\ exists' = TRUE
                    /\ stderr' = CASE r.outcome = "app_error" -> << "App error: ", r.msg >>
                                   [] r.outcome = "panic" -> << "thread 'main' panicked: ", r.msg >>
                                   [] OTHER -> << >>
                    /\ status' = CASE r.outcome = "ok" -> EXIT_SUCCESS
                                   [] r.outcome = "app_error" -> EXIT_FAILURE
                                   [] OTHER -> EXIT_PANIC
        /\ UNCHANGED << command, content, task, decoded, pc >>

(***************************************************************************)
(* The program run again and again on one backing file.                    *)
(***************************************************************************)
PROGRAM == << "t", "o", "d", "o", "s" >>

NoCommand == [kind |-> "none", msg |-> "", cmd |-> "", text |-> << >>, number |-> 0]

NoDecoded == [kind |-> "none", msg |-> "", task |-> NoTask]

\* task names given to add: plain, empty, with a carriage return inside,
\* with the separator, with a line feed followed by a well-formed record, by
\* a line without separator and by a line whose flag is no number, and
\* ending in carriage returns
Names ==
    { << "a" >>,
      << >>,
      << "1", CR, "a" >>,
      << "a", SEPARATOR, "1" >>,
      << "a", LF, "1", SEPARATOR >>,
      << "a", LF, "a" >>,
      << LF, "a", SEPARATOR >>,
      << "a", CR, CR >> }

\* spellings of the command words
AddWords == { << "a", "d", "D" >> }

ListWords == { list, << "L", "I", "S", "T" >> }

CompleteWords == { complete }

DeleteWords == { << "D", "e", "l", "e", "t", "e" >> }

\* argument vectors that Command::build rejects
BadArgs ==
    { << PROGRAM >>,
      << PROGRAM, << "f", "o", "o" >> >>,
      << PROGRAM, add >>,
      << PROGRAM, complete >>,
      << PROGRAM, delete >>,
      << PROGRAM, complete, << "a", "b", "c" >> >>,
      << PROGRAM, delete, << "-", "1" >> >> }

Init ==
    /\ file = << >>
    /\ exists = FALSE
    /\ argv = << >>
    /\ before = << >>
    /\ tasks = << >>
    /\ stdout = << >>
    /\ stderr = << >>
    /\ outcome = "none"
    /\ status = 0
    /\ command = NoCommand
    /\ content = << >>
    /\ task = NoTask
    /\ decoded = NoDecoded
    /\ pc = "main"

AddCmd ==
    /\ pc = "main"
    /\ Len(Lines(file)) < MaxTasks
    /\ \E w \in AddWords, text \in Names : Main(<< PROGRAM, w, text >>)

ListCmd ==
    /\ pc = "main"
    /\ \E w \in ListWords : Main(<< PROGRAM, w >>)

CompleteCmd ==
    /\ pc = "main"
    /\ \E w \in CompleteWords, n \in 0..(MaxTasks + 1) :
           Main(<< PROGRAM, w, DecimalString(n) >>)

DeleteCmd ==
    /\ pc = "main"
    /\ \E w \in DeleteWords, n \in 0..(MaxTasks + 1) :
           Main(<< PROGRAM, w, DecimalString(n) >>)

BadCmd ==
    /\ pc = "main"
    /\ \E args \in BadArgs : Main(args)

Next == AddCmd \/ ListCmd \/ CompleteCmd \/ DeleteCmd \/ BadCmd

Spec == Init /\ [][Next]_vars

(***************************************************************************)
(* Command::build on its own: every argument vector of up to MaxArgs       *)
(* arguments drawn from ArgStrings.                                        *)
(***************************************************************************)
ArgStrings ==
    AddWords \cup ListWords \cup CompleteWords \cup DeleteWords \cup
    { add,
      << "C", "O", "M", "P", "L", "E", "T", "E" >>,
      delete,
      << "f", "o", "o" >>,
      << "a", "d" >>,
      << >>,
      << "0" >>,
      << "2" >>,
      << "1", "0" >>,
      << "+", "1" >>,
      << "-", "1" >>,
      << "a", "b", "c" >>,
      << "1", "a" >>,
      << "A", SEPARATOR, "b" >> }

RECURSIVE ArgVectors(_)
ArgVectors(n) ==
    IF n = 0 THEN { << >> }
    ELSE LET shorter == ArgVectors(n - 1)
         IN  shorter \cup { Append(v, a) : v \in shorter, a \in ArgStrings }

InitBuild ==
    /\ argv \in { << PROGRAM >> \o v : v \in ArgVectors(MaxArgs) }
    /\ pc = "build"
    /\ command = NoCommand
    /\ file = << >>
    /\ exists = FALSE
    /\ before = << >>
    /\ tasks = << >>
    /\ stdout = << >>
    /\ stderr = << >>
    /\ outcome = "none"
    /\ status = 0
    /\ content = << >>
    /\ task = NoTask
    /\ decoded = NoDecoded

BuildStep ==
    /\ pc = "build"
    /\ command' = Build(argv)
    /\ pc' = "built"
    /\ UNCHANGED << file, exists, argv, before, tasks, stdout, stderr, outcome,
                    status, content, task, decoded >>

NextBuild == BuildStep

SpecBuild == InitBuild /\ [][NextBuild]_vars

(***************************************************************************)
(* The record codec on its own: every Task whose name has up to MaxLen     *)
(* characters is encoded and then decoded, and every line of up to MaxLen  *)
(* characters is decoded.                                                  *)
(***************************************************************************)
CodecChars == { "a", "0", "1", SEPARATOR, LF, CR }

RECURSIVE StringsUpTo(_, _)
StringsUpTo(chars, n) ==
    IF n = 0 THEN { << >> }
    ELSE LET shorter == StringsUpTo(chars, n - 1)
         IN  shorter \cup { Append(str, c) : str \in shorter, c \in chars }

InitCodec ==
    /\ \/ /\ pc = "task"
          /\ task \in [name : StringsUpTo(CodecChars, MaxLen), completed : BOOLEAN]
          /\ content = << >>
       \/ /\ pc = "line"
          /\ task = NoTask
          /\ content \in StringsUpTo(CodecChars, MaxLen)
    /\ decoded = NoDecoded
    /\ command = NoCommand
    /\ argv = << >>
    /\ file = << >>
    /\ exists = FALSE
    /\ before = << >>
    /\ tasks = << >>
    /\ stdout = << >>
    /\ stderr = << >>
    /\ outcome = "none"
    /\ status = 0

Encode ==
    /\ pc = "task"
    /\ content' = ToString(task)
    /\ pc' = "encoded"
    /\ UNCHANGED << file, exists, argv, before, tasks, stdout, stderr, outcome,
                    status, command, task, decoded >>

Decode ==
    /\ pc \in { "encoded", "line" }
    /\ decoded' = FromString(content)
    /\ pc' = IF pc = "encoded" THEN "roundtrip" ELSE "decoded"
    /\ UNCHANGED << file, exists, argv, before, tasks, stdout, stderr, outcome,
                    status, command, content, task >>

NextCodec == Encode \/ Decode

SpecCodec == InitCodec /\ [][NextCodec]_vars

(***************************************************************************)
(* Vocabulary of the properties.                                           *)
(***************************************************************************)
\* the command of the last invocation and the list it loaded
Cmd == Build(argv)

Loaded == Load(before)

Ran == outcome # "none"

Succeeded(c) == outcome = "ok" /\ Cmd.kind = "ok" /\ Cmd.cmd = c

Mutating == Cmd.kind = "ok" /\ Cmd.cmd \in { "Add", "Complete", "Delete" }

\* the list a fresh TaskList::load reads from the file as it is now
Reloaded == Load(file)

Contains(str, c) == \E i \in 1..Len(str) : str[i] = c

\* a name the line format keeps: no separator, no line feed, and no carriage
\* return at its end
Storable(name) ==
    /\ ~Contains(name, SEPARATOR)
    /\ ~Contains(name, LF)
    /\ ~(name # << >> /\ name[Len(name)] = CR)

AllStorable(ts) == \A i \in 1..Len(ts) : Storable(ts[i].name)

\* the error outcomes of the specification, by the message the code gives them
MissingArgumentError == { "Missing task", "Missing task number" }
InvalidNumberError == { "Non-integer number" }
UnsupportedCommandError == { "Unsupported command" }
ParseError == { "Failed to parse Task" }
MissingTaskError == { "Missing task" }

AppFailsWith(errors) ==
    /\ outcome = "app_error"
    /\ status = 1
    /\ stderr[1] = "App error: "
    /\ stderr[2] \in errors

\* a line that is no two-field record with an integer first field
Malformed(l) ==
    LET parts == Split(l, SEPARATOR)
    IN  Len(parts) # 2 \/ ~ParseUsize(parts[1]).ok

(***************************************************************************)
(* C1  Persistence.                                                        *)
(***************************************************************************)
\* C1 (as stated): after every successful add, complete or delete, a fresh
\* load of the backing file yields exactly the in-memory list that was saved.
C1_ReloadYieldsSaved ==
    (outcome = "ok" /\ Mutating) =>
        (Reloaded.kind = "ok" /\ Reloaded.tasks = tasks)

\* C1 (amended): after every successful add, complete or delete whose saved
\* list holds only names without separator, without line feed and not ending
\* in a carriage return, a fresh load of the backing file yields exactly the
\* in-memory list that was saved.
C1_ReloadYieldsSavedStorable ==
    (outcome = "ok" /\ Mutating /\ AllStorable(tasks)) =>
        (Reloaded.kind = "ok" /\ Reloaded.tasks = tasks)

C1_Witness ==
    /\ Succeeded("Delete")
    /\ AllStorable(tasks)
    /\ Len(tasks) >= 2
    /\ tasks[1].completed
    /\ Reloaded.tasks = tasks

(***************************************************************************)
(* C2  Index bounds of complete and delete.                                *)
(***************************************************************************)
\* C2: complete n and delete n with n >= the length of the loaded list fail
\* with MissingTaskError ("Missing task", exit status 1) and never panic.
C2_OutOfRangeIsMissingTask ==
    (/\ Ran
     /\ Cmd.kind = "ok"
     /\ Cmd.cmd \in { "Complete", "Delete" }
     /\ Loaded.kind = "ok"
     /\ Cmd.number >= Len(Loaded.tasks)) => AppFailsWith(MissingTaskError)

(***************************************************************************)
(* C3  Malformed lines.                                                    *)
(***************************************************************************)
\* C3: an invocation that loads a file with a line that does not split into
\* exactly two parts, or whose first part is no integer, fails with
\* ParseError; so a name with the separator saved by add makes the next load
\* fail.
C3_MalformedLineIsParseError ==
    (/\ Ran
     /\ Cmd.kind = "ok"
     /\ \E i \in 1..Len(Lines(before)) : Malformed(Lines(before)[i]))
        => AppFailsWith(ParseError)

(***************************************************************************)
(* C4  Exit status.                                                        *)
(***************************************************************************)
\* C4: every invocation ends with status 0 or 1: 0 exactly when the command
\* parsed and executed, 1 with "Command error: " for a parsing error and with
\* "App error: " for an execution error.
C4_ExitStatusZeroOrOne ==
    Ran =>
        /\ status \in { 0, 1 }
        /\ (status = 0) <=> (outcome = "ok")
        /\ (Cmd.kind = "err") => (status = 1 /\ stderr[1] = "Command error: ")
        /\ (Cmd.kind = "ok" /\ outcome # "ok") =>
               (status = 1 /\ stderr[1] = "App error: ")

(***************************************************************************)
(* C5  No partial application.                                             *)
(***************************************************************************)
\* C5: an invocation that fails leaves the bytes of the backing file as they
\* were, and the file changes only in a mutating invocation that succeeded.
C5_NoPartialApplication ==
    Ran =>
        /\ (outcome # "ok") => (file = before)
        /\ (file # before) => (outcome = "ok" /\ Mutating)

C5_Witness ==
    /\ outcome = "app_error"
    /\ Cmd.kind = "ok"
    /\ Cmd.cmd = "Complete"
    /\ Len(Lines(before)) >= 2
    /\ file = before

(***************************************************************************)
(* C6  Delete renumbers.                                                   *)
(***************************************************************************)
\* ts is old without its element at 0-based index n
IsRemoval(ts, old, n) ==
    /\ Len(ts) = Len(old) - 1
    /\ \A i \in 1..n : ts[i] = old[i]
    /\ \A i \in (n + 2)..Len(old) : ts[i - 1] = old[i]

\* C6 (as stated): a successful delete n on a list of length L has n < L and
\* leaves L-1 tasks, those before n in place and those after n one index
\* lower, names and flags kept, in memory and in the rewritten file.
C6_DeleteRenumbers ==
    Succeeded("Delete") =>
        /\ Cmd.number < Len(Loaded.tasks)
        /\ IsRemoval(tasks, Loaded.tasks, Cmd.number)
        /\ Reloaded.kind = "ok"
        /\ IsRemoval(Reloaded.tasks, Loaded.tasks, Cmd.number)

\* C6 (amended): the same in memory; and in the rewritten file when no
\* remaining name ends in a carriage return.
C6_DeleteRenumbersStorable ==
    Succeeded("Delete") =>
        /\ Cmd.number < Len(Loaded.tasks)
        /\ IsRemoval(tasks, Loaded.tasks, Cmd.number)
        /\ AllStorable(tasks) =>
               /\ Reloaded.kind = "ok"
               /\ IsRemoval(Reloaded.tasks, Loaded.tasks, Cmd.number)

C6_Witness ==
    /\ Succeeded("Delete")
    /\ Len(Loaded.tasks) = 3
    /\ Cmd.number = 1
    /\ Loaded.tasks[1] # Loaded.tasks[3]
    /\ AllStorable(tasks)
    /\ Reloaded.tasks = << Loaded.tasks[1], Loaded.tasks[3] >>

(***************************************************************************)
(* C7  Add appends.                                                        *)
(***************************************************************************)
\* what a list invocation that follows would print
FollowingList == Run(CommandList, file)

AppendedInMemory ==
    tasks = Append(Loaded.tasks, [name |-> Cmd.text, completed |-> FALSE])

LastRowIsNewTask ==
    LET out == FollowingList.stdout
        L == Len(Loaded.tasks)
    IN  /\ FollowingList.outcome = "ok"
        /\ Len(out) >= 2
        /\ out[1] = HEADER
        /\ out[Len(out)] =
               DecimalString(L) \o << SEPARATOR, "0", SEPARATOR >> \o Cmd.text
        /\ (L = 0) => (Len(out) = 2)

\* C7 (as stated): a successful add of text to L tasks gives L+1 tasks, the
\* first L unchanged and the last one (text, not completed), and a following
\* list prints the header and, as its last row, L|0|text.
C7_AddAppends ==
    Succeeded("Add") => (AppendedInMemory /\ LastRowIsNewTask)

\* C7 (amended): the same in memory; and the following list prints L|0|text
\* as its last row when text has no separator, no line feed and no carriage
\* return at its end.
C7_AddAppendsStorable ==
    Succeeded("Add") =>
        /\ AppendedInMemory
        /\ Storable(Cmd.text) => LastRowIsNewTask

C7_Witness ==
    /\ Succeeded("Add")
    /\ Storable(Cmd.text)
    /\ Len(Loaded.tasks) = 2
    /\ Loaded.tasks[1].completed
    /\ Len(FollowingList.stdout) = 4
    /\ LastRowIsNewTask

(***************************************************************************)
(* C8  Complete is targeted and irreversible.                              *)
(***************************************************************************)
\* the index after the invocation of the task loaded at 1-based index i,
\* 0 when a successful delete removed it
IndexAfter(i) ==
    IF Succeeded("Delete")
    THEN IF i = Cmd.number + 1 THEN 0
         ELSE IF i > Cmd.number + 1 THEN i - 1 ELSE i
    ELSE i

\* in list ts every task that was completed when loaded, and is still there,
\* is completed
StaysCompleted(ts) ==
    \A i \in 1..Len(Loaded.tasks) :
        (Loaded.tasks[i].completed /\ IndexAfter(i) # 0) =>
            /\ IndexAfter(i) <= Len(ts)
            /\ ts[IndexAfter(i)].completed

\* C8: a successful complete n sets the flag of the task at index n and
\* changes nothing else of the list; and no invocation turns a set flag back:
\* a task that was completed when the invocation loaded the list is, unless
\* deleted, completed in the list the invocation ends with and in the list
\* the next invocation loads.
C8_CompleteTargetedIrreversible ==
    /\ Succeeded("Complete") =>
           /\ Cmd.number < Len(Loaded.tasks)
           /\ Len(tasks) = Len(Loaded.tasks)
           /\ \A i \in 1..Len(tasks) :
                  /\ tasks[i].name = Loaded.tasks[i].name
                  /\ tasks[i].completed =
                         (i = Cmd.number + 1 \/ Loaded.tasks[i].completed)
    /\ (Ran /\ Cmd.kind = "ok" /\ Loaded.kind = "ok") =>
           /\ StaysCompleted(tasks)
           /\ (Reloaded.kind = "ok") => StaysCompleted(Reloaded.tasks)

C8_Witness ==
    /\ Succeeded("Complete")
    /\ Len(Loaded.tasks) = 3
    /\ Cmd.number = 1
    /\ Loaded.tasks[2].completed
    /\ ~Loaded.tasks[3].completed
    /\ tasks[2].completed
    /\ ~tasks[3].completed

(***************************************************************************)
(* C9  Command::build.                                                     *)
(***************************************************************************)
CasePairs ==
    { << "a", "A" >>, << "c", "C" >>, << "d", "D" >>, << "e", "E" >>,
      << "i", "I" >>, << "l", "L" >>, << "m", "M" >>, << "o", "O" >>,
      << "p", "P" >>, << "s", "S" >>, << "t", "T" >> }

\* str spells word, upper or lower case
Spells(str, word) ==
    /\ Len(str) = Len(word)
    /\ \A i \in 1..Len(word) :
           str[i] = word[i] \/ << word[i], str[i] >> \in CasePairs

\* str is a decimal numeral of a non-negative integer
IsNonNegativeInteger(str) ==
    LET ds == IF str # << >> /\ str[1] = "+" THEN Tail(str) ELSE str
    IN  ds # << >> /\ \A i \in 1..Len(ds) : ds[i] \in { Digits[d] : d \in 1..10 }

BuildFailsWith(errors) == command.kind = "err" /\ command.msg \in errors

\* the arguments the command consumes, program name included
Consumed(args) ==
    IF Spells(args[2], list) THEN 2
    ELSE IF Spells(args[2], add) \/ Spells(args[2], complete) \/ Spells(args[2], delete)
         THEN IF Len(args) >= 3 THEN 3 ELSE 2
    ELSE 2

\* C9: the first argument is the command word, matched without regard to
\* case against add, list, complete, delete; the text of add is taken as
\* typed; a missing text or number is MissingArgumentError; a number that is
\* no non-negative integer is InvalidNumberError; another word is
\* UnsupportedCommandError; further arguments do not change the result.
\* (The explored numerals have no leading zeros, so the number built is the
\* one whose decimal string is the argument.)
C9_BuildContract ==
    (pc = "built" /\ Len(argv) >= 2) =>
        LET word == argv[2]
        IN  /\ Spells(word, add) =>
                   IF Len(argv) = 2 THEN BuildFailsWith(MissingArgumentError)
                   ELSE command = CommandAdd(argv[3])
            /\ Spells(word, list) => command = CommandList
            /\ (Spells(word, complete) \/ Spells(word, delete)) =>
                   IF Len(argv) = 2 THEN BuildFailsWith(MissingArgumentError)
                   ELSE IF ~IsNonNegativeInteger(argv[3])
                        THEN BuildFailsWith(InvalidNumberError)
                   ELSE /\ command.kind = "ok"
                        /\ command.cmd =
                               (IF Spells(word, complete) THEN "Complete" ELSE "Delete")
                        /\ DecimalString(command.number) =
                               (IF argv[3][1] = "+" THEN Tail(argv[3]) ELSE argv[3])
            /\ ~(\E w \in { add, list, complete, delete } : Spells(word, w)) =>
                   BuildFailsWith(UnsupportedCommandError)
            /\ command = Build(SubSeq(argv, 1, Consumed(argv)))

C9_Witness ==
    /\ pc = "built"
    /\ Len(argv) = 4
    /\ argv[2] = << "D", "e", "l", "e", "t", "e" >>
    /\ argv[3] = << "2" >>
    /\ command = CommandDelete(2)

(***************************************************************************)
(* C10  Codec round trip.                                                  *)
(***************************************************************************)
\* C10: for every Task whose name has no separator, to_string gives the flag
\* digit, the separator and the name as it is, and from_string of that line
\* succeeds with the same name and the same flag.
C10_RoundTrip ==
    (pc = "roundtrip" /\ ~Contains(task.name, SEPARATOR)) =>
        /\ content[1] = (IF task.completed THEN "1" ELSE "0")
        /\ content[2] = SEPARATOR
        /\ SubSeq(content, 3, Len(content)) = task.name
        /\ decoded.kind = "ok"
        /\ decoded.task.name = task.name
        /\ decoded.task.completed = task.completed

C10_Witness ==
    /\ pc = "roundtrip"
    /\ task.completed
    /\ task.name = << "a", LF, "1", CR >>
    /\ decoded.task = task

=============================================================================
